---- MODULE Spec2Model ----
(***************************************************************************)
(* Lock / unlock orchestration of git-locks-manager (asset tips).          *)
(* The engine is app/electron/git-assets-tip.js: lockMany synchronises     *)
(* the requested files with origin/assets-tip and then runs                *)
(* `git lfs lock` per file; unlockMany publishes the local-head blobs to   *)
(* assets-tip through an ephemeral worktree and then runs                  *)
(* `git lfs unlock` per file.  Every external command is one step of the   *)
(* model; a command that can exit nonzero does so nondeterministically.    *)
(***************************************************************************)
EXTENDS Integers, Sequences, FiniteSets, TLC

\* ------------------------------------------------------------------ bounds
\* Longest list of paths handed to lockMany / unlockMany.
MaxPaths == 2

\* ------------------------------------------------------------ value spaces
\* A path is the sequence of its tokens: file names, "/", "\\", "." and
\* "..".  <<"a.bin">> is the string 'a.bin', <<".", "/", "a.bin">> is
\* './a.bin', <<>> is the empty string.
Names == {"a.bin", "b.bin"}

\* Paths of the repository that a batch can name, in canonical form.
Files == {<<n>> : n \in Names}

\* What a caller can put in the paths array: a file path or the empty string.
Paths == Files \cup {<<>>}

\* The same, with the './' spelling of one file besides its canonical one.
RawPaths == Paths \cup {<<".", "/", "a.bin">>}

\* '' / null : the path has no blob at that revision.
NoBlob == "none"

\* Blob ids.
Blobs == {NoBlob, "b1", "b2"}

Trees == [Files -> Blobs]

\* The tree without any file (also: no worktree, nothing checked out).
NoTree == [f \in Files |-> NoBlob]

\* Exit code of a spawned command: 0, or nonzero.
OkCode == "0"
FailCode == "1"

VARIABLES
  head,        \* HEAD:<path> of the caller's branch
  index,       \* the caller's index
  wtree,       \* the caller's working directory
  tipLocal,    \* origin/assets-tip as last fetched (remote-tracking ref)
  tipRemote,   \* assets-tip on the remote
  remoteAhead, \* the remote tip moved since tipLocal was fetched
  wtExists,    \* the ephemeral worktree of the running batch exists
  wtIndex,     \* index of the ephemeral worktree
  wtHead,      \* commit checked out in the ephemeral worktree
  pc,          \* position of the running engine call
  op,          \* "lock" | "unlock" | "none"
  files,       \* const files (deduplicated input)
  force,       \* option force of unlockMany
  dirtyAtStart,\* history: files with uncommitted changes when the call began
  toUpdate,    \* lockMany: files to sync from the tip
  toPublish,   \* unlockMany: [f, headBlob] pairs to publish
  i,           \* loop index of the running for-loop (1-based)
  results,     \* const results
  outcome,     \* "none" | "resolved" | "rejected"
  error,       \* the Error the promise rejected with / pending in finally
  calls,       \* external commands spawned by the batch: <<cmd, arg, code>>
  one,         \* the running lockOne / unlockOne call and its arguments
  returned,    \* what the promise of that call settled with
  mounted,     \* renderer: the batch listeners of the Files page are registered
  runningRef,  \* renderer: runningRef.current of the registered listeners
  batches,     \* renderer: batches whose promise chain has not finished
  selectedFiles,\* renderer: state.files.selectedFiles
  doneEvent,   \* renderer: the last '...-batch-done' event dispatched
  list,        \* renderer: state.files.list
  busy,        \* renderer: busy of the single-button multi-file action
  dispatched,  \* renderer: what the last step dispatched
  fn,          \* the path normalizer under study: "paths.js" | "filesSlice"
  str,         \* a path string handed to it
  out          \* what it returned for str

engineVars == <<head, index, wtree, tipLocal, tipRemote, remoteAhead, wtExists,
                wtIndex, wtHead, pc, op, files, force, dirtyAtStart, toUpdate,
                toPublish, i, results, outcome, error, calls, one, returned>>

oneVars == <<one, returned>>

uiVars == <<mounted, runningRef, batches, selectedFiles, doneEvent, list, busy,
            dispatched>>

normVars == <<fn, str, out>>

vars == <<engineVars, uiVars, normVars>>

repoVars == <<head, index, wtree>>
remoteVars == <<tipLocal, tipRemote, remoteAhead>>
wtVars == <<wtExists, wtIndex, wtHead>>

\* ------------------------------------------------------------ pure helpers
Range(s) == {s[k] : k \in 1..Len(s)}

SeqsUpTo(S, n) == UNION {[1..k -> S] : k \in 0..n}

\* Array.from(new Set(paths)).filter(Boolean): first occurrences, in order,
\* without the empty string.
RECURSIVE Dedupe(_, _)
Dedupe(paths, seen) ==
  IF paths = <<>> THEN <<>>
  ELSE IF Head(paths) \in seen \/ Head(paths) = <<>>
       THEN Dedupe(Tail(paths), seen)
       ELSE <<Head(paths)>> \o Dedupe(Tail(paths), seen \cup {Head(paths)})

UniqueFiles(paths) == Dedupe(paths, {})

\* Subsequence of fs whose elements satisfy membership in S, order kept.
RECURSIVE FilterSeq(_, _)
FilterSeq(fs, S) ==
  IF fs = <<>> THEN <<>>
  ELSE IF Head(fs) \in S THEN <<Head(fs)>> \o FilterSeq(Tail(fs), S)
       ELSE FilterSeq(Tail(fs), S)

\* ------------------------------------------------------------------ paths
\* String(p).replace(/\\/g, '/')
ToSlashes(p) == [k \in 1..Len(p) |-> IF p[k] = "\\" THEN "/" ELSE p[k]]

RECURSIVE DropSlashes(_)
DropSlashes(p) ==
  IF p # <<>> /\ Head(p) = "/" THEN DropSlashes(Tail(p)) ELSE p

\* .replace(/^\.\/+/, '') : a leading './' with all the slashes after it.
StripDotSlash(p) ==
  IF Len(p) >= 2 /\ p[1] = "." /\ p[2] = "/" THEN DropSlashes(Tail(p)) ELSE p

\* path.split('/') : the segments between the slashes, empty ones included.
RECURSIVE SplitAcc(_, _, _)
SplitAcc(p, cur, acc) ==
  IF p = <<>> THEN Append(acc, cur)
  ELSE IF Head(p) = "/" THEN SplitAcc(Tail(p), <<>>, Append(acc, cur))
       ELSE SplitAcc(Tail(p), Append(cur, Head(p)), acc)

Split(p) == SplitAcc(p, <<>>, <<>>)

\* Node's normalizeString: drops '' and '.', resolves '..'.
RECURSIVE NormalizeSegs(_, _, _)
NormalizeSegs(segs, res, allowAboveRoot) ==
  IF segs = <<>> THEN res
  ELSE LET sg == Head(segs) IN
    IF sg = <<>> \/ sg = <<".">>
    THEN NormalizeSegs(Tail(segs), res, allowAboveRoot)
    ELSE IF sg = <<"..">>
    THEN IF res # <<>> /\ res[Len(res)] # <<"..">>
         THEN NormalizeSegs(Tail(segs), SubSeq(res, 1, Len(res) - 1), allowAboveRoot)
         ELSE IF allowAboveRoot
              THEN NormalizeSegs(Tail(segs), Append(res, sg), allowAboveRoot)
              ELSE NormalizeSegs(Tail(segs), res, allowAboveRoot)
    ELSE NormalizeSegs(Tail(segs), Append(res, sg), allowAboveRoot)

RECURSIVE Join(_)
Join(segs) ==
  IF segs = <<>> THEN <<>>
  ELSE IF Len(segs) = 1 THEN Head(segs)
       ELSE Head(segs) \o <<"/">> \o Join(Tail(segs))

\* path.posix.normalize
PosixNormalize(p) ==
  IF p = <<>> THEN <<".">>
  ELSE LET isAbsolute == p[1] = "/"
           trailing == p[Len(p)] = "/"
           body == Join(NormalizeSegs(Split(p), <<>>, ~isAbsolute))
           dotted == IF body = <<>> /\ ~isAbsolute THEN <<".">> ELSE body
           slashed == IF dotted # <<>> /\ trailing THEN dotted \o <<"/">> ELSE dotted
       IN IF isAbsolute THEN <<"/">> \o slashed ELSE slashed

\* normPath of electron/paths.js
normPath(p) == PosixNormalize(StripDotSlash(ToSlashes(p)))

\* The repository path that git, run in the repository root, resolves the
\* argument p to ('./a.bin' is a.bin).
GitFile(p) == PosixNormalize(p)

\* ref:p as git resolves it; NoBlob when the ref has no such path.
BlobAt(tree, p) == IF GitFile(p) \in Files THEN tree[GitFile(p)] ELSE NoBlob

\* The repository files that the arguments fs name.
GitFiles(fs) == {GitFile(f) : f \in Range(fs)} \cap Files

\* existsOnRef(repo, ref, file): git cat-file -e ref:file exits 0.
existsOnRef(tree, f) == BlobAt(tree, f) # NoBlob

\* git diff --name-only -- paths : working directory against the index; a
\* file the index does not hold (untracked) is not listed.
Changed(fs) == {f \in GitFiles(fs) : index[f] # NoBlob /\ wtree[f] # index[f]}

\* git diff --cached --name-only -- paths : index against HEAD.
Staged(fs) == {f \in GitFiles(fs) : index[f] # head[f]}

\* Files with uncommitted changes, unstaged (of a tracked file) or staged.
Dirty ==
  {f \in Files : (index[f] # NoBlob /\ wtree[f] # index[f]) \/ index[f] # head[f]}

\* Variant of NeedsSync: a file missing from HEAD is not compared with the tip.
NeedsSync_headOnly(f) ==
  /\ existsOnRef(tipLocal, f) /\ existsOnRef(head, f)
  /\ BlobAt(tipLocal, f) # BlobAt(head, f)

\* Variant of NeedsSync: every file that exists on the tip is marked, the
\* comparison with the HEAD blob is left out.
NeedsSync_onTip(f) == existsOnRef(tipLocal, f)

\* lockMany's loop over files: on the tip and tipOid !== headOid.
NeedsSync(f) == existsOnRef(tipLocal, f) /\ BlobAt(tipLocal, f) # BlobAt(head, f)

ToUpdate(fs) == FilterSeq(fs, {f \in Range(fs) : NeedsSync(f)})

\* One spawned command in the log of the batch.
Call(cmd, arg, code) == <<cmd, arg, code>>

Log(cmd, arg, code) == Append(calls, Call(cmd, arg, code))

\* normPath of the files slice: String(p || '') with backslashes turned to
\* slashes and one leading './' (with the slashes after it) removed.
sliceNormPath(p) == StripDotSlash(ToSlashes(p))

\* ------------------------------------------------------------------- Init
\* No lockOne / unlockOne call is running; its promise is not there.
NoCall == [api |-> "none", file |-> <<>>, force |-> FALSE]
NotReturned == [st |-> "none", val |-> <<>>]

InitProgram ==
  /\ head \in Trees
  /\ index = head
  /\ wtree = head
  /\ tipRemote \in Trees
  /\ tipLocal = tipRemote
  /\ remoteAhead = FALSE
  /\ wtExists = FALSE
  /\ wtIndex = NoTree
  /\ wtHead = NoTree
  /\ pc = "idle"
  /\ op = "none"
  /\ files = <<>>
  /\ force = FALSE
  /\ dirtyAtStart = {}
  /\ toUpdate = <<>>
  /\ toPublish = <<>>
  /\ i = 1
  /\ results = <<>>
  /\ outcome = "none"
  /\ error = "none"
  /\ calls = <<>>
  /\ one = NoCall
  /\ returned = NotReturned
  /\ mounted = TRUE
  /\ runningRef = FALSE
  /\ batches = <<>>
  /\ selectedFiles = <<>>
  /\ doneEvent = "none"
  /\ busy = FALSE
  /\ dispatched = {}

\* The engine and the renderer with an empty list; no path is handed to a normalizer.
Init == InitProgram /\ list = <<>> /\ fn = "none" /\ str = <<>> /\ out = <<>>

\* The promise of the running call rejects with err.
Reject(err) ==
  /\ pc' = "done"
  /\ outcome' = "rejected"
  /\ error' = err

\* The promise of the running call resolves with results.
Resolve ==
  /\ pc' = "done"
  /\ outcome' = "resolved"
  /\ error' = "none"

\* Variant of lockMany: the `if (!files.length) return []` line is left out.
lockMany_noEmptyCheck(paths) ==
  /\ pc = "idle"
  /\ op' = "lock"
  /\ files' = UniqueFiles(paths)
  /\ force' = FALSE
  /\ dirtyAtStart' = Dirty
  /\ pc' = "L_fetch"
  /\ UNCHANGED <<outcome, error>>
  /\ UNCHANGED <<uiVars, normVars, oneVars, repoVars, remoteVars, wtVars, toUpdate, toPublish, i,
                 results, calls>>

\* --------------------------------------------------------------- lockMany
\* lockMany(repo, paths): dedupe, return [] on empty input, else go fetch.
lockManyCall(paths) ==
  /\ pc = "idle"
  /\ op' = "lock"
  /\ files' = UniqueFiles(paths)
  /\ force' = FALSE
  /\ dirtyAtStart' = Dirty
  /\ IF UniqueFiles(paths) = <<>>
     THEN Resolve
     ELSE /\ pc' = "L_fetch"
          /\ UNCHANGED <<outcome, error>>
  /\ UNCHANGED <<uiVars, normVars, repoVars, remoteVars, wtVars, toUpdate, toPublish, i,
                 results, calls>>

\* lockMany called by the application itself, not through lockOne.
lockMany(paths) == lockManyCall(paths) /\ UNCHANGED oneVars

\* Variant of lockFetch: the fetch runs with allowFail, its failure is ignored.
lockFetch_allowFail(ok) ==
  /\ pc = "L_fetch"
  /\ IF ok
     THEN /\ tipLocal' = tipRemote
          /\ remoteAhead' = FALSE
          /\ calls' = Log("fetch", <<>>, OkCode)
     ELSE /\ calls' = Log("fetch", <<>>, FailCode)
          /\ UNCHANGED <<tipLocal, remoteAhead>>
  /\ pc' = "L_clean"
  /\ UNCHANGED <<uiVars, normVars, oneVars, repoVars, tipRemote, wtVars, op, files, force, dirtyAtStart,
                 toUpdate, toPublish, i, results, outcome, error>>

\* fetchOrigin(repo, ['assets-tip']) inside lockMany.
lockFetch(ok) ==
  /\ pc = "L_fetch"
  /\ IF ok
     THEN /\ tipLocal' = tipRemote
          /\ remoteAhead' = FALSE
          /\ calls' = Log("fetch", <<>>, OkCode)
          /\ pc' = "L_clean"
          /\ UNCHANGED <<outcome, error>>
     ELSE /\ calls' = Log("fetch", <<>>, FailCode)
          /\ Reject("fetch")
          /\ UNCHANGED <<tipLocal, remoteAhead>>
  /\ UNCHANGED <<uiVars, normVars, oneVars, repoVars, tipRemote, wtVars, op, files, force, dirtyAtStart, toUpdate,
                 toPublish, i, results>>

\* Variant of ensureCleanPaths: only the unstaged changes are looked at.
ensureCleanPaths_noCached ==
  /\ pc = "L_clean"
  /\ calls' = Log("diff", <<>>, OkCode)
  /\ IF Changed(files) # {}
     THEN Reject("changed")
     ELSE /\ pc' = "L_resolve"
          /\ UNCHANGED <<outcome, error>>
  /\ UNCHANGED <<uiVars, normVars, oneVars, repoVars, remoteVars, wtVars, op, files, force, dirtyAtStart,
                 toUpdate, toPublish, i, results>>

\* Variant of ensureCleanPaths: the changed paths are listed but nothing is
\* thrown.
ensureCleanPaths_noThrow ==
  /\ pc = "L_clean"
  /\ calls' = Append(Log("diff", <<>>, OkCode), Call("diff-cached", <<>>, OkCode))
  /\ pc' = "L_resolve"
  /\ UNCHANGED <<uiVars, normVars, oneVars, repoVars, remoteVars, wtVars, op, files, force, dirtyAtStart,
                 toUpdate, toPublish, i, results, outcome, error>>

\* ensureCleanPaths(repo, files): throws when a requested path has unstaged
\* changes, then when one has staged changes.
ensureCleanPaths ==
  /\ pc = "L_clean"
  /\ IF Changed(files) # {}
     THEN /\ calls' = Log("diff", <<>>, OkCode)
          /\ Reject("changed")
     ELSE IF Staged(files) # {}
     THEN /\ calls' = Append(Log("diff", <<>>, OkCode),
                             Call("diff-cached", <<>>, OkCode))
          /\ Reject("staged")
     ELSE /\ calls' = Append(Log("diff", <<>>, OkCode),
                             Call("diff-cached", <<>>, OkCode))
          /\ pc' = "L_resolve"
          /\ UNCHANGED <<outcome, error>>
  /\ UNCHANGED <<uiVars, normVars, oneVars, repoVars, remoteVars, wtVars, op, files, force, dirtyAtStart, toUpdate,
                 toPublish, i, results>>

\* The loop that builds toUpdate (cat-file -e, rev-parse per file), and the
\* test `if (toUpdate.length)`.
resolveUpdate ==
  /\ pc = "L_resolve"
  /\ toUpdate' = ToUpdate(files)
  /\ calls' = Log("rev-parse", <<>>, OkCode)
  /\ pc' = IF ToUpdate(files) # <<>> THEN "L_checkout" ELSE "L_lock"
  /\ UNCHANGED <<uiVars, normVars, oneVars, repoVars, remoteVars, wtVars, op, files, force, dirtyAtStart, toPublish,
                 i, results, outcome, error>>

\* git checkout tipRef -- ...toUpdate : index and working directory take the
\* tip's blobs.
syncCheckout(ok) ==
  /\ pc = "L_checkout"
  /\ IF ok
     THEN /\ index' = [f \in Files |->
                         IF f \in GitFiles(toUpdate) THEN tipLocal[f] ELSE index[f]]
          /\ wtree' = [f \in Files |->
                         IF f \in GitFiles(toUpdate) THEN tipLocal[f] ELSE wtree[f]]
          /\ calls' = Log("checkout", <<>>, OkCode)
          /\ pc' = "L_add"
          /\ UNCHANGED <<outcome, error>>
     ELSE /\ calls' = Log("checkout", <<>>, FailCode)
          /\ Reject("checkout")
          /\ UNCHANGED <<index, wtree>>
  /\ UNCHANGED <<uiVars, normVars, oneVars, head, remoteVars, wtVars, op, files, force, dirtyAtStart, toUpdate,
                 toPublish, i, results>>

\* git add -- ...toUpdate
syncAdd(ok) ==
  /\ pc = "L_add"
  /\ IF ok
     THEN /\ index' = [f \in Files |->
                         IF f \in GitFiles(toUpdate) THEN wtree[f] ELSE index[f]]
          /\ calls' = Log("add", <<>>, OkCode)
          /\ pc' = "L_commit"
          /\ UNCHANGED <<outcome, error>>
     ELSE /\ calls' = Log("add", <<>>, FailCode)
          /\ Reject("add")
          /\ UNCHANGED index
  /\ UNCHANGED <<uiVars, normVars, oneVars, head, wtree, remoteVars, wtVars, op, files, force, dirtyAtStart, toUpdate,
                 toPublish, i, results>>

RECURSIVE CommitEach(_)
CommitEach(fs) ==
  IF fs = <<>> THEN <<>>
  ELSE <<Call("commit", Head(fs), OkCode)>> \o CommitEach(Tail(fs))

\* Variant of syncCommit: one commit per file of toUpdate.
syncCommit_perFile(ok) ==
  /\ pc = "L_commit"
  /\ IF ok
     THEN /\ head' = index
          /\ calls' = calls \o CommitEach(toUpdate)
          /\ pc' = "L_lock"
          /\ UNCHANGED <<outcome, error>>
     ELSE /\ calls' = Log("commit", <<>>, FailCode)
          /\ Reject("commit")
          /\ UNCHANGED head
  /\ UNCHANGED <<uiVars, normVars, oneVars, index, wtree, remoteVars, wtVars, op, files, force,
                 dirtyAtStart, toUpdate, toPublish, i, results>>

\* git commit -m subject [-m body] : one commit of the whole index.
syncCommit(ok) ==
  /\ pc = "L_commit"
  /\ IF ok
     THEN /\ head' = index
          /\ calls' = Log("commit", <<>>, OkCode)
          /\ pc' = "L_lock"
          /\ UNCHANGED <<outcome, error>>
     ELSE /\ calls' = Log("commit", <<>>, FailCode)
          /\ Reject("commit")
          /\ UNCHANGED head
  /\ UNCHANGED <<uiVars, normVars, oneVars, index, wtree, remoteVars, wtVars, op, files, force, dirtyAtStart,
                 toUpdate, toPublish, i, results>>

\* Variant of lockEach: the commit is not awaited, so the loop may start
\* while the commit is still running.
lockEach_noAwait(r) ==
  /\ pc \in {"L_commit", "L_lock"}
  /\ IF i > Len(files)
     THEN /\ pc = "L_lock"
          /\ Resolve
          /\ UNCHANGED <<i, results, calls>>
     ELSE /\ calls' = Log("lock", files[i], IF r = "fail" THEN FailCode ELSE OkCode)
          /\ IF r = "ok"
             THEN /\ results' = Append(results, files[i])
                  /\ i' = i + 1
                  /\ UNCHANGED <<pc, outcome, error>>
             ELSE /\ Reject(IF r = "fail" THEN "lfs" ELSE "json")
                  /\ UNCHANGED <<i, results>>
  /\ UNCHANGED <<uiVars, normVars, oneVars, repoVars, remoteVars, wtVars, op, files, force, dirtyAtStart,
                 toUpdate, toPublish>>

\* One turn of `for (const f of files)`: git lfs lock f --json, JSON.parse.
\* r = "ok": exit 0 and parsable JSON; "fail": nonzero exit; "badjson":
\* exit 0 and JSON.parse throws.  Either failure rejects lockMany.
lockEach(r) ==
  /\ pc = "L_lock"
  /\ IF i > Len(files)
     THEN /\ Resolve
          /\ UNCHANGED <<i, results, calls>>
     ELSE /\ calls' = Log("lock", files[i], IF r = "fail" THEN FailCode ELSE OkCode)
          /\ IF r = "ok"
             THEN /\ results' = Append(results, files[i])
                  /\ i' = i + 1
                  /\ UNCHANGED <<pc, outcome, error>>
             ELSE /\ Reject(IF r = "fail" THEN "lfs" ELSE "json")
                  /\ UNCHANGED <<i, results>>
  /\ UNCHANGED <<uiVars, normVars, oneVars, repoVars, remoteVars, wtVars, op, files, force, dirtyAtStart, toUpdate,
                 toPublish>>

\* Variant of NeedsPublish: every requested file is published, the
\* comparison with the tip is left out.
NeedsPublish_always(f) == TRUE

\* ------------------------------------------------------------- unlockMany
\* unlockMany's loop over files: new on the tip, or a different blob.
NeedsPublish(f) ==
  ~existsOnRef(tipLocal, f) \/ BlobAt(tipLocal, f) # BlobAt(head, f)

RECURSIVE PairUp(_)
PairUp(fs) ==
  IF fs = <<>> THEN <<>> ELSE <<<<Head(fs), BlobAt(head, Head(fs))>>>> \o PairUp(Tail(fs))

ToPublish(fs) == PairUp(FilterSeq(fs, {f \in Range(fs) : NeedsPublish(f)}))

\* unlockMany(repo, paths, {force}): dedupe, return [] on empty input.
unlockManyCall(paths, frc) ==
  /\ pc = "idle"
  /\ op' = "unlock"
  /\ files' = UniqueFiles(paths)
  /\ force' = frc
  /\ dirtyAtStart' = Dirty
  /\ IF UniqueFiles(paths) = <<>>
     THEN Resolve
     ELSE /\ pc' = "U_fetch"
          /\ UNCHANGED <<outcome, error>>
  /\ UNCHANGED <<uiVars, normVars, repoVars, remoteVars, wtVars, toUpdate, toPublish, i,
                 results, calls>>

\* unlockMany called by the application itself, not through unlockOne.
unlockMany(paths, frc) == unlockManyCall(paths, frc) /\ UNCHANGED oneVars

\* fetchOrigin(repo, [tipBranch]) inside unlockMany.
unlockFetch(ok) ==
  /\ pc = "U_fetch"
  /\ IF ok
     THEN /\ tipLocal' = tipRemote
          /\ remoteAhead' = FALSE
          /\ calls' = Log("fetch", <<>>, OkCode)
          /\ pc' = "U_resolve"
          /\ UNCHANGED <<outcome, error>>
     ELSE /\ calls' = Log("fetch", <<>>, FailCode)
          /\ Reject("fetch")
          /\ UNCHANGED <<tipLocal, remoteAhead>>
  /\ UNCHANGED <<uiVars, normVars, oneVars, repoVars, tipRemote, wtVars, op, files, force, dirtyAtStart, toUpdate,
                 toPublish, i, results>>

\* Variant of resolvePublish: a file that is not in HEAD is left out of
\* toPublish and nothing is thrown.
resolvePublish_skipMissing ==
  /\ pc = "U_resolve"
  /\ calls' = Log("rev-parse", <<>>, OkCode)
  /\ toPublish' = ToPublish(FilterSeq(files,
                          {f \in Range(files) : BlobAt(head, f) # NoBlob}))
  /\ i' = 1
  /\ pc' = IF toPublish' # <<>> THEN "U_wtclear" ELSE "U_unlock"
  /\ UNCHANGED <<uiVars, normVars, oneVars, repoVars, remoteVars, wtVars, op, files, force, dirtyAtStart,
                 toUpdate, results, outcome, error>>

\* The loop that builds toPublish; it throws on a file that is not in HEAD.
resolvePublish ==
  /\ pc = "U_resolve"
  /\ calls' = Log("rev-parse", <<>>, OkCode)
  /\ IF \E f \in Range(files) : BlobAt(head, f) = NoBlob
     THEN /\ Reject("nohead")
          /\ UNCHANGED <<toPublish, i>>
     ELSE /\ toPublish' = ToPublish(files)
          /\ i' = 1
          /\ pc' = IF ToPublish(files) # <<>> THEN "U_wtclear" ELSE "U_unlock"
          /\ UNCHANGED <<outcome, error>>
  /\ UNCHANGED <<uiVars, normVars, oneVars, repoVars, remoteVars, wtVars, op, files, force, dirtyAtStart, toUpdate,
                 results>>

\* git worktree remove -f wt, allowFail, before the worktree is added.
worktreeClear ==
  /\ pc = "U_wtclear"
  /\ calls' = Log("worktree-remove", <<>>, IF wtExists THEN OkCode ELSE FailCode)
  /\ wtExists' = FALSE
  /\ wtIndex' = NoTree
  /\ wtHead' = NoTree
  /\ pc' = "U_wtadd"
  /\ UNCHANGED <<uiVars, normVars, oneVars, repoVars, remoteVars, op, files, force, dirtyAtStart,
                 toUpdate, toPublish, i, results, outcome, error>>

\* A step inside `try` threw err: control goes to the finally block.
Throw(err) ==
  /\ pc' = "U_finally"
  /\ error' = err

\* git worktree add -f --detach wt tipRef
worktreeAdd(ok) ==
  /\ pc = "U_wtadd"
  /\ IF ok
     THEN /\ wtExists' = TRUE
          /\ wtIndex' = tipLocal
          /\ wtHead' = tipLocal
          /\ calls' = Log("worktree-add", <<>>, OkCode)
          /\ pc' = "U_branch"
          /\ UNCHANGED error
     ELSE /\ calls' = Log("worktree-add", <<>>, FailCode)
          /\ Throw("worktree-add")
          /\ UNCHANGED wtVars
  /\ UNCHANGED <<uiVars, normVars, oneVars, repoVars, remoteVars, op, files, force, dirtyAtStart, toUpdate, toPublish,
                 i, results, outcome>>

\* Variant of worktreeBranch: the checkout runs without wtOpts, in the
\* caller's repository, which it switches to the tip.
worktreeBranch_inRepo(ok) ==
  /\ pc = "U_branch"
  /\ IF ok
     THEN /\ head' = tipLocal
          /\ index' = tipLocal
          /\ wtree' = tipLocal
          /\ calls' = Log("checkout-B", <<>>, OkCode)
          /\ pc' = "U_stage"
          /\ UNCHANGED error
     ELSE /\ calls' = Log("checkout-B", <<>>, FailCode)
          /\ Throw("checkout-B")
          /\ UNCHANGED repoVars
  /\ UNCHANGED <<uiVars, normVars, oneVars, remoteVars, wtVars, op, files, force, dirtyAtStart, toUpdate,
                 toPublish, i, results, outcome>>

\* git checkout -q -B tipBranch tipRef, in the worktree.
worktreeBranch(ok) ==
  /\ pc = "U_branch"
  /\ IF ok
     THEN /\ wtIndex' = tipLocal
          /\ wtHead' = tipLocal
          /\ calls' = Log("checkout-B", <<>>, OkCode)
          /\ pc' = "U_stage"
          /\ UNCHANGED error
     ELSE /\ calls' = Log("checkout-B", <<>>, FailCode)
          /\ Throw("checkout-B")
          /\ UNCHANGED <<wtIndex, wtHead>>
  /\ UNCHANGED <<uiVars, normVars, oneVars, repoVars, remoteVars, wtExists, op, files, force, dirtyAtStart, toUpdate,
                 toPublish, i, results, outcome>>

\* Variant of stageBlob: the file's working-directory content is staged, not
\* the HEAD blob resolved before the worktree was created.
stageBlob_fromWorkdir(ok) ==
  /\ pc = "U_stage"
  /\ IF i > Len(toPublish)
     THEN /\ pc' = "U_describe"
          /\ UNCHANGED <<wtIndex, i, calls, error>>
     ELSE IF ok /\ toPublish[i][1] \in Files
     THEN /\ wtIndex' = [wtIndex EXCEPT ![toPublish[i][1]] = wtree[toPublish[i][1]]]
          /\ calls' = Log("update-index", toPublish[i][1], OkCode)
          /\ i' = i + 1
          /\ UNCHANGED <<pc, error>>
     ELSE /\ calls' = Log("update-index", toPublish[i][1], FailCode)
          /\ Throw("update-index")
          /\ UNCHANGED <<wtIndex, i>>
  /\ UNCHANGED <<uiVars, normVars, oneVars, repoVars, remoteVars, wtExists, wtHead, op, files, force, dirtyAtStart,
                 toUpdate, toPublish, results, outcome>>

\* One turn of `for (const [f, headBlob] of toPublish)`:
\* git update-index --add --cacheinfo 100644 headBlob f, in the worktree.
\* git update-index --cacheinfo takes the path as the index entry's name and
\* refuses one that is not canonical ('./a.bin': "Invalid path").
stageBlob(ok) ==
  /\ pc = "U_stage"
  /\ IF i > Len(toPublish)
     THEN /\ pc' = "U_describe"
          /\ UNCHANGED <<wtIndex, i, calls, error>>
     ELSE IF ok /\ toPublish[i][1] \in Files
     THEN /\ wtIndex' = [wtIndex EXCEPT ![toPublish[i][1]] = toPublish[i][2]]
          /\ calls' = Log("update-index", toPublish[i][1], OkCode)
          /\ i' = i + 1
          /\ UNCHANGED <<pc, error>>
     ELSE /\ calls' = Log("update-index", toPublish[i][1], FailCode)
          /\ Throw("update-index")
          /\ UNCHANGED <<wtIndex, i>>
  /\ UNCHANGED <<uiVars, normVars, oneVars, repoVars, remoteVars, wtExists, wtHead, op, files, force, dirtyAtStart,
                 toUpdate, toPublish, results, outcome>>

\* currentBranch(repo) and shortHead(repo) for the commit subject.
describeSource(ok) ==
  /\ pc = "U_describe"
  /\ IF ok
     THEN /\ calls' = Log("rev-parse", <<>>, OkCode)
          /\ pc' = "U_commit"
          /\ UNCHANGED error
     ELSE /\ calls' = Log("rev-parse", <<>>, FailCode)
          /\ Throw("rev-parse")
  /\ UNCHANGED <<uiVars, normVars, oneVars, repoVars, remoteVars, wtVars, op, files, force, dirtyAtStart, toUpdate,
                 toPublish, i, results, outcome>>

\* git commit -m subject [-m body], in the worktree.
publishCommit(ok) ==
  /\ pc = "U_commit"
  /\ IF ok
     THEN /\ wtHead' = wtIndex
          /\ calls' = Log("commit", <<>>, OkCode)
          /\ pc' = "U_push"
          /\ UNCHANGED error
     ELSE /\ calls' = Log("commit", <<>>, FailCode)
          /\ Throw("commit")
          /\ UNCHANGED wtHead
  /\ UNCHANGED <<uiVars, normVars, oneVars, repoVars, remoteVars, wtExists, wtIndex, op, files, force, dirtyAtStart,
                 toUpdate, toPublish, i, results, outcome>>

\* Variant of publishPush: the push is outside the try block, its failure
\* leaves unlockMany without the cleanup.
publishPush_noFinally(ok) ==
  /\ pc = "U_push"
  /\ IF ok /\ ~remoteAhead
     THEN /\ tipRemote' = wtHead
          /\ tipLocal' = wtHead
          /\ calls' = Log("push", <<>>, OkCode)
          /\ pc' = "U_finally"
          /\ UNCHANGED <<outcome, error>>
     ELSE /\ calls' = Log("push", <<>>, FailCode)
          /\ Reject("push")
          /\ UNCHANGED <<tipRemote, tipLocal>>
  /\ UNCHANGED <<uiVars, normVars, oneVars, repoVars, remoteAhead, wtVars, op, files, force, dirtyAtStart,
                 toUpdate, toPublish, i, results>>

\* git push origin tipBranch, in the worktree: fast-forward only, so it is
\* rejected when the remote tip moved after the fetch.
publishPush(ok) ==
  /\ pc = "U_push"
  /\ IF ok /\ ~remoteAhead
     THEN /\ tipRemote' = wtHead
          /\ tipLocal' = wtHead
          /\ calls' = Log("push", <<>>, OkCode)
          /\ pc' = "U_finally"
          /\ UNCHANGED error
     ELSE /\ calls' = Log("push", <<>>, FailCode)
          /\ Throw("push")
          /\ UNCHANGED <<tipRemote, tipLocal>>
  /\ UNCHANGED <<uiVars, normVars, oneVars, repoVars, remoteAhead, wtVars, op, files, force, dirtyAtStart, toUpdate,
                 toPublish, i, results, outcome>>

\* Variant of worktreeRemove: the cleanup sits in a catch block that swallows
\* the error, so the release loop runs after a failed publish.
worktreeRemove_swallow ==
  /\ pc = "U_finally"
  /\ calls' = Log("worktree-remove", <<>>, IF wtExists THEN OkCode ELSE FailCode)
  /\ wtExists' = FALSE
  /\ wtIndex' = NoTree
  /\ wtHead' = NoTree
  /\ i' = 1
  /\ pc' = "U_unlock"
  /\ error' = "none"
  /\ UNCHANGED <<uiVars, normVars, oneVars, repoVars, remoteVars, op, files, force, dirtyAtStart,
                 toUpdate, toPublish, results, outcome>>

\* finally: git worktree remove -f wt, allowFail; then the pending error,
\* if any, propagates out of unlockMany.
worktreeRemove ==
  /\ pc = "U_finally"
  /\ calls' = Log("worktree-remove", <<>>, IF wtExists THEN OkCode ELSE FailCode)
  /\ wtExists' = FALSE
  /\ wtIndex' = NoTree
  /\ wtHead' = NoTree
  /\ i' = 1
  /\ IF error # "none"
     THEN /\ pc' = "done"
          /\ outcome' = "rejected"
          /\ UNCHANGED error
     ELSE /\ pc' = "U_unlock"
          /\ UNCHANGED <<outcome, error>>
  /\ UNCHANGED <<uiVars, normVars, oneVars, repoVars, remoteVars, op, files, force, dirtyAtStart, toUpdate, toPublish,
                 results>>

\* Variant of unlockEach: --force is never appended to the release call.
unlockEach_noForce(r) ==
  /\ pc = "U_unlock"
  /\ IF i > Len(files)
     THEN /\ Resolve
          /\ UNCHANGED <<i, results, calls>>
     ELSE /\ calls' = Log("unlock", files[i],
                          IF r = "fail" THEN FailCode ELSE OkCode)
          /\ IF r = "ok"
             THEN /\ results' = Append(results, files[i])
                  /\ i' = i + 1
                  /\ UNCHANGED <<pc, outcome, error>>
             ELSE /\ Reject(IF r = "fail" THEN "lfs" ELSE "json")
                  /\ UNCHANGED <<i, results>>
  /\ UNCHANGED <<uiVars, normVars, oneVars, repoVars, remoteVars, wtVars, op, files, force, dirtyAtStart, toUpdate,
                 toPublish>>

\* One turn of `for (const f of files)`: git lfs unlock f --json [--force].
unlockEach(r) ==
  /\ pc = "U_unlock"
  /\ IF i > Len(files)
     THEN /\ Resolve
          /\ UNCHANGED <<i, results, calls>>
     ELSE /\ calls' = Log(IF force THEN "unlock-force" ELSE "unlock", files[i],
                          IF r = "fail" THEN FailCode ELSE OkCode)
          /\ IF r = "ok"
             THEN /\ results' = Append(results, files[i])
                  /\ i' = i + 1
                  /\ UNCHANGED <<pc, outcome, error>>
             ELSE /\ Reject(IF r = "fail" THEN "lfs" ELSE "json")
                  /\ UNCHANGED <<i, results>>
  /\ UNCHANGED <<uiVars, normVars, oneVars, repoVars, remoteVars, wtVars, op, files, force, dirtyAtStart, toUpdate,
                 toPublish>>

\* ------------------------------------------------------------ environment
\* The user edits a file of the working directory between two batches
\* (environment bound: one locally modified file at a time).
UserEdit(f, b) ==
  /\ pc = "idle"
  /\ wtree = head /\ index = head
  /\ wtree[f] # b
  /\ wtree' = [wtree EXCEPT ![f] = b]
  /\ UNCHANGED <<uiVars, normVars, oneVars, head, index, remoteVars, wtVars, pc, op, files, force, dirtyAtStart,
                 toUpdate, toPublish, i, results, outcome, error, calls>>

\* The user stages a changed file (git add).
UserStage(f) ==
  /\ pc = "idle"
  /\ wtree[f] # index[f]
  /\ index' = [index EXCEPT ![f] = wtree[f]]
  /\ UNCHANGED <<uiVars, normVars, oneVars, head, wtree, remoteVars, wtVars, pc, op, files, force, dirtyAtStart,
                 toUpdate, toPublish, i, results, outcome, error, calls>>

\* The user commits the index (git commit).
UserCommit ==
  /\ pc = "idle"
  /\ index # head
  /\ head' = index
  /\ UNCHANGED <<uiVars, normVars, oneVars, index, wtree, remoteVars, wtVars, pc, op, files, force, dirtyAtStart,
                 toUpdate, toPublish, i, results, outcome, error, calls>>

\* Another client publishes to assets-tip on the remote (environment bound:
\* once between two fetches of this client).
RemoteAdvance(f, b) ==
  /\ ~remoteAhead
  /\ tipRemote[f] # b
  /\ tipRemote' = [tipRemote EXCEPT ![f] = b]
  /\ remoteAhead' = TRUE
  /\ UNCHANGED <<uiVars, normVars, oneVars, repoVars, tipLocal, wtVars, pc, op, files, force, dirtyAtStart, toUpdate,
                 toPublish, i, results, outcome, error, calls>>

\* The caller consumed the settled promise; the engine is idle again.
Return ==
  /\ pc = "done"
  /\ pc' = "idle"
  /\ op' = "none"
  /\ files' = <<>>
  /\ force' = FALSE
  /\ dirtyAtStart' = {}
  /\ toUpdate' = <<>>
  /\ toPublish' = <<>>
  /\ i' = 1
  /\ results' = <<>>
  /\ outcome' = "none"
  /\ error' = "none"
  /\ calls' = <<>>
  /\ one' = NoCall
  /\ returned' = NotReturned
  /\ UNCHANGED <<uiVars, normVars, repoVars, remoteVars, wtVars>>

Next ==
  \/ \E paths \in SeqsUpTo(Paths, MaxPaths) : lockMany(paths)
  \/ \E ok \in BOOLEAN : lockFetch(ok)
  \/ ensureCleanPaths
  \/ resolveUpdate
  \/ \E ok \in BOOLEAN : syncCheckout(ok)
  \/ \E ok \in BOOLEAN : syncAdd(ok)
  \/ \E ok \in BOOLEAN : syncCommit(ok)
  \/ \E r \in {"ok", "fail", "badjson"} : lockEach(r)
  \/ \E paths \in SeqsUpTo(Paths, MaxPaths), frc \in BOOLEAN : unlockMany(paths, frc)
  \/ \E ok \in BOOLEAN : unlockFetch(ok)
  \/ resolvePublish
  \/ worktreeClear
  \/ \E ok \in BOOLEAN : worktreeAdd(ok)
  \/ \E ok \in BOOLEAN : worktreeBranch(ok)
  \/ \E ok \in BOOLEAN : stageBlob(ok)
  \/ \E ok \in BOOLEAN : describeSource(ok)
  \/ \E ok \in BOOLEAN : publishCommit(ok)
  \/ \E ok \in BOOLEAN : publishPush(ok)
  \/ worktreeRemove
  \/ \E r \in {"ok", "fail", "badjson"} : unlockEach(r)
  \/ \E f \in Files, b \in Blobs : UserEdit(f, b)
  \/ \E f \in Files : UserStage(f)
  \/ UserCommit
  \/ \E f \in Files, b \in Blobs : RemoteAdvance(f, b)
  \/ Return

Spec == Init /\ [][Next]_vars

\* The engine alone, called with paths as a caller can spell them: the
\* canonical path of a file and its './' spelling are both possible elements.
NextRaw ==
  \/ \E paths \in SeqsUpTo(RawPaths, MaxPaths) : lockMany(paths)
  \/ \E ok \in BOOLEAN : lockFetch(ok)
  \/ ensureCleanPaths
  \/ resolveUpdate
  \/ \E ok \in BOOLEAN : syncCheckout(ok)
  \/ \E ok \in BOOLEAN : syncAdd(ok)
  \/ \E ok \in BOOLEAN : syncCommit(ok)
  \/ \E r \in {"ok", "fail", "badjson"} : lockEach(r)
  \/ \E paths \in SeqsUpTo(RawPaths, MaxPaths), frc \in BOOLEAN : unlockMany(paths, frc)
  \/ \E ok \in BOOLEAN : unlockFetch(ok)
  \/ resolvePublish
  \/ worktreeClear
  \/ \E ok \in BOOLEAN : worktreeAdd(ok)
  \/ \E ok \in BOOLEAN : worktreeBranch(ok)
  \/ \E ok \in BOOLEAN : stageBlob(ok)
  \/ \E ok \in BOOLEAN : describeSource(ok)
  \/ \E ok \in BOOLEAN : publishCommit(ok)
  \/ \E ok \in BOOLEAN : publishPush(ok)
  \/ worktreeRemove
  \/ \E r \in {"ok", "fail", "badjson"} : unlockEach(r)
  \/ Return

SpecRaw == Init /\ [][NextRaw]_vars

\* ------------------------------------------------------ lockOne, unlockOne
OneCall(api, file, frc) == [api |-> api, file |-> file, force |-> frc]
Pending == [st |-> "pending", val |-> <<>>]

\* lockOne(repo, file, opts): await lockMany(repo, [file], opts).
lockOne(file) ==
  /\ one = NoCall
  /\ lockManyCall(<<file>>)
  /\ one' = OneCall("lockOne", file, FALSE)
  /\ returned' = Pending

\* Variant of unlockOne: opts is not handed on to unlockMany.
unlockOne_noOpts(file, frc) ==
  /\ one = NoCall
  /\ unlockManyCall(<<file>>, FALSE)
  /\ one' = OneCall("unlockOne", file, frc)
  /\ returned' = Pending

\* unlockOne(repo, file, opts): await unlockMany(repo, [file], opts).
unlockOne(file, frc) ==
  /\ one = NoCall
  /\ unlockManyCall(<<file>>, frc)
  /\ one' = OneCall("unlockOne", file, frc)
  /\ returned' = Pending

\* The awaited batch settled: `return res[0]` (undefined when res is empty:
\* val = <<>>), or the rejection of the batch passed on.
oneReturn ==
  /\ pc = "done"
  /\ one # NoCall
  /\ returned = Pending
  /\ returned' =
       IF outcome = "resolved"
       THEN [st |-> "resolved",
             val |-> IF results = <<>> THEN <<>> ELSE <<results[1]>>]
       ELSE [st |-> "rejected", val |-> <<>>]
  /\ UNCHANGED <<uiVars, normVars, one, repoVars, remoteVars, wtVars, pc, op, files, force,
                 dirtyAtStart, toUpdate, toPublish, i, results, outcome, error, calls>>

\* The engine called through its single-file wrappers only.
NextOne ==
  \/ \E file \in RawPaths : lockOne(file)
  \/ \E file \in RawPaths, frc \in BOOLEAN : unlockOne(file, frc)
  \/ oneReturn
  \/ \E ok \in BOOLEAN : lockFetch(ok)
  \/ ensureCleanPaths
  \/ resolveUpdate
  \/ \E ok \in BOOLEAN : syncCheckout(ok)
  \/ \E ok \in BOOLEAN : syncAdd(ok)
  \/ \E ok \in BOOLEAN : syncCommit(ok)
  \/ \E r \in {"ok", "fail", "badjson"} : lockEach(r)
  \/ \E ok \in BOOLEAN : unlockFetch(ok)
  \/ resolvePublish
  \/ worktreeClear
  \/ \E ok \in BOOLEAN : worktreeAdd(ok)
  \/ \E ok \in BOOLEAN : worktreeBranch(ok)
  \/ \E ok \in BOOLEAN : stageBlob(ok)
  \/ \E ok \in BOOLEAN : describeSource(ok)
  \/ \E ok \in BOOLEAN : publishCommit(ok)
  \/ \E ok \in BOOLEAN : publishPush(ok)
  \/ worktreeRemove
  \/ \E r \in {"ok", "fail", "badjson"} : unlockEach(r)
  \/ Return

SpecOne == Init /\ [][NextOne]_vars

\* --------------------------------------------------------------- renderer
\* Environment bound: batches whose promise chain is running at one time.
MaxBatches == 2

\* A batch started by a listener: its kind, whether the runningRef of its
\* closure is the one of the registered listeners, and where its promise chain
\* stands: "engine" (lockFiles / unlockFiles pending), "lookup" (getLockByPath
\* pending), "finally" (then / catch have run); res is how it went:
\* "ok" (some path succeeded), "none" (none did), "reject", "threw".
\* ok and errs are the paths of the two parts of the result it received and
\* locks the paths whose lookup returned a lock.
Batch(kind, st, res) ==
  [kind |-> kind, own |-> TRUE, st |-> st, res |-> res,
   ok |-> {}, errs |-> {}, locks |-> {}]

Disown(bs) == [k \in 1..Len(bs) |-> [bs[k] EXCEPT !.own = FALSE]]

RemoveAt(sq, k) == SubSeq(sq, 1, k - 1) \o SubSeq(sq, k + 1, Len(sq))

DoneEventOf(kind) == IF kind = "lock" THEN "lock-batch-done" ELSE "unlock-batch-done"

\* Something a step hands to dispatch(...) or document.dispatchEvent(...),
\* with the paths it carries.
Dispatch(type, paths) == [type |-> type, paths |-> paths]

\* addError with the message built from the errors of a batch result: the
\* paths it names are those of errors, the first five when there are more.
ErrorsMessage(errs) == IF errs = {} THEN {} ELSE {Dispatch("addError", errs)}

\* addError(err.message || String(err)) of a catch handler.
ExceptionMessage == {Dispatch("addError", {})}

\* ---- files slice
\* A TrackedFile of state.files.list; lock: the entry has a lock object.
Entry(p, raw, lk, miss) == [path |-> p, rawPath |-> raw, lock |-> lk, isMissing |-> miss]

\* An entry is found by lockFileLocal / unlockFileLocal for filePath.
Matches(e, filePath) ==
  \/ sliceNormPath(e.path) = sliceNormPath(filePath)
  \/ sliceNormPath(e.rawPath) = sliceNormPath(filePath)

\* state.list.findIndex(...); 0 stands for -1.
FindIndex(l, filePath) ==
  LET hits == {k \in 1..Len(l) : Matches(l[k], filePath)}
  IN  IF hits = {} THEN 0 ELSE CHOOSE k \in hits : \A h \in hits : k <= h

\* Reducer lockFileLocal on the list.
LockLocal(l, filePath, lk) ==
  LET fileIndex == FindIndex(l, filePath)
  IN  IF fileIndex = 0 THEN l ELSE [l EXCEPT ![fileIndex].lock = lk]

\* Variant of UnlockLocal: a missing entry is kept, with its lock cleared.
UnlockLocal_keepMissing(l, filePath) ==
  LET fileIndex == FindIndex(l, filePath)
  IN  IF fileIndex = 0 THEN l ELSE [l EXCEPT ![fileIndex].lock = FALSE]

\* Reducer unlockFileLocal on the list.
UnlockLocal(l, filePath) ==
  LET fileIndex == FindIndex(l, filePath)
  IN  IF fileIndex = 0 THEN l
      ELSE IF l[fileIndex].isMissing THEN RemoveAt(l, fileIndex)
      ELSE [l EXCEPT ![fileIndex].lock = FALSE]

\* The reducers dispatched once for each path of a set.
RECURSIVE LockAll(_, _)
LockAll(l, ps) ==
  IF ps = {} THEN l
  ELSE LET p == CHOOSE q \in ps : TRUE IN LockAll(LockLocal(l, p, TRUE), ps \ {p})

RECURSIVE UnlockAll(_, _)
UnlockAll(l, ps) ==
  IF ps = {} THEN l
  ELSE LET p == CHOOSE q \in ps : TRUE IN UnlockAll(UnlockLocal(l, p), ps \ {p})

PathsOf(l) == {l[k].path : k \in 1..Len(l)}

\* The spellings of a file's path that a listing or a row can carry.
Spellings(f) == {p \in RawPaths : sliceNormPath(p) = f}

\* The listings refreshFiles can hand to setFiles: each file at most once,
\* locked or not, missing or not, rawPath left to default to path.
RowsOf(f) == {<<>>} \cup
  {<<Entry(p, p, lk, miss)>> : p \in Spellings(f), lk \in BOOLEAN, miss \in BOOLEAN}

Listings == {x \o y : x \in RowsOf(<<"a.bin">>), y \in RowsOf(<<"b.bin">>)}

\* The listing of both files, unlocked and present.
DefaultListing == <<Entry(<<"a.bin">>, <<"a.bin">>, FALSE, FALSE),
                    Entry(<<"b.bin">>, <<"b.bin">>, FALSE, FALSE)>>

\* The payload of setFiles with normPath applied to path and rawPath.
Normalized(payload) ==
  [k \in 1..Len(payload) |->
     [payload[k] EXCEPT !.path = sliceNormPath(@), !.rawPath = sliceNormPath(@)]]

\* setFiles: the list replaced by the normalized payload, the selection
\* filtered to the paths of the new list.
setFiles(payload) ==
  /\ list' = Normalized(payload)
  /\ selectedFiles' = FilterSeq(selectedFiles, PathsOf(list'))
  /\ dispatched' = {Dispatch("setFiles", {})}
  /\ UNCHANGED <<mounted, runningRef, batches, doneEvent, busy, engineVars, normVars>>

\* A row is clicked: toggleSelectedFile(props.path) pushes the path, or
\* removes it when it is selected.
toggleSelectedFile(f) ==
  /\ f \in PathsOf(list)
  /\ selectedFiles' =
       IF f \in Range(selectedFiles)
       THEN FilterSeq(selectedFiles, Range(selectedFiles) \ {f})
       ELSE Append(selectedFiles, f)
  /\ dispatched' = {Dispatch("toggleSelectedFile", {f})}
  /\ UNCHANGED <<mounted, runningRef, batches, doneEvent, list, busy, engineVars, normVars>>

\* onLock of one row: lockFile and getLockByPath have resolved, found: the
\* lookup returned a lock (lockFileLocal gets lock[0], undefined when it did
\* not); or one of them rejected (ok = FALSE).
onLock(filePath, ok, found) ==
  /\ mounted
  /\ ~ok => ~found
  /\ IF ok
     THEN /\ list' = LockLocal(list, filePath, found)
          /\ dispatched' = {Dispatch(IF found THEN "lockFileLocal"
                                     ELSE "lockFileLocal(undefined)", {filePath})}
     ELSE /\ list' = list
          /\ dispatched' = ExceptionMessage
  /\ UNCHANGED <<mounted, runningRef, batches, selectedFiles, doneEvent, busy, engineVars, normVars>>

\* Variant of onUnlock: the reducer never removes an entry.
onUnlock_keepMissing(filePath, ok) ==
  /\ mounted
  /\ IF ok
     THEN /\ list' = UnlockLocal_keepMissing(list, filePath)
          /\ dispatched' = {Dispatch("unlockFileLocal", {filePath})}
     ELSE /\ list' = list
          /\ dispatched' = ExceptionMessage
  /\ UNCHANGED <<mounted, runningRef, batches, selectedFiles, doneEvent, busy, engineVars, normVars>>

\* onUnlock of one row: unlockFile has resolved (ok) or rejected.
onUnlock(filePath, ok) ==
  /\ mounted
  /\ IF ok
     THEN /\ list' = UnlockLocal(list, filePath)
          /\ dispatched' = {Dispatch("unlockFileLocal", {filePath})}
     ELSE /\ list' = list
          /\ dispatched' = ExceptionMessage
  /\ UNCHANGED <<mounted, runningRef, batches, selectedFiles, doneEvent, busy, engineVars, normVars>>

\* ---- batch listeners
\* The effect runs (mount of the Files page, or a new repo.path): a fresh
\* runningRef, the two listeners added.
registerHandlers ==
  /\ ~mounted
  /\ mounted' = TRUE
  /\ runningRef' = FALSE
  /\ dispatched' = {}
  /\ UNCHANGED <<batches, selectedFiles, doneEvent, list, busy, engineVars, normVars>>

\* The effect's cleanup: the listeners are removed.  The batches in flight
\* keep the runningRef of their own closure, which no listener reads again.
removeHandlers ==
  /\ mounted
  /\ mounted' = FALSE
  /\ runningRef' = FALSE
  /\ batches' = Disown(batches)
  /\ dispatched' = {}
  /\ UNCHANGED <<selectedFiles, doneEvent, list, busy, engineVars, normVars>>

\* The body shared by onLockBatch and onUnlockBatch up to the engine call,
\* run by the document event kind-batch with e.detail = filePaths.
StartBatch(kind, filePaths) ==
  /\ mounted
  /\ Len(batches) < MaxBatches
  /\ IF runningRef \/ filePaths = <<>>
     THEN UNCHANGED <<runningRef, batches>>
     ELSE /\ runningRef' = TRUE
          /\ batches' = Append(batches, Batch(kind, "engine", "none"))
  /\ dispatched' = {Dispatch(IF kind = "lock" THEN "lock-batch" ELSE "unlock-batch",
                             Range(filePaths))}
  /\ UNCHANGED <<mounted, selectedFiles, doneEvent, list, engineVars, normVars>>

\* 'lock-batch' arrives with e.detail = filePaths.
onLockBatch(filePaths) == StartBatch("lock", filePaths) /\ UNCHANGED busy

\* 'unlock-batch' arrives with e.detail = filePaths.
onUnlockBatch(filePaths) == StartBatch("unlock", filePaths) /\ UNCHANGED busy

\* What lockFiles / unlockFiles settles with: rejected, or resolved with the
\* succeeded paths (keys of ok) and the failed ones (path of each error).
Result(rejected, ok, errs) == [rejected |-> rejected, ok |-> ok, errs |-> errs]
Rejection == Result(TRUE, {}, {})
Results == {Rejection} \cup
  {Result(FALSE, ok, errs) : ok \in SUBSET Files, errs \in SUBSET Files}

ResOf(r) == IF r.rejected THEN "reject" ELSE IF r.ok = {} THEN "none" ELSE "ok"

\* Variant of batchSettle: the errors of a lock batch without a succeeded
\* path are dropped.
batchSettle_dropErrors(k, r, threw) ==
  /\ k \in 1..Len(batches)
  /\ batches[k].st = "engine"
  /\ r.rejected => ~threw
  /\ LET b == batches[k]
         lookup == ~threw /\ b.kind = "lock" /\ ResOf(r) = "ok"
     IN  /\ batches' = [batches EXCEPT ![k] =
               [@ EXCEPT !.st = IF lookup THEN "lookup" ELSE "finally",
                         !.res = IF threw THEN "threw" ELSE ResOf(r),
                         !.ok = r.ok, !.errs = r.errs]]
         /\ list' = IF ~threw /\ b.kind = "unlock" /\ ~r.rejected
                    THEN UnlockAll(list, r.ok) ELSE list
         /\ dispatched' =
              IF threw \/ r.rejected THEN ExceptionMessage
              ELSE IF lookup THEN {}
              ELSE IF b.kind = "lock" THEN {}
              ELSE (IF r.ok = {} THEN {} ELSE {Dispatch("unlockFileLocal", r.ok)})
                   \cup ErrorsMessage(r.errs)
  /\ UNCHANGED <<mounted, runningRef, selectedFiles, doneEvent, busy, engineVars, normVars>>

\* Variant of batchSettle: unlockFileLocal is dispatched for the failed paths
\* of an unlock batch as well.
batchSettle_allPaths(k, r, threw) ==
  /\ k \in 1..Len(batches)
  /\ batches[k].st = "engine"
  /\ r.rejected => ~threw
  /\ LET b == batches[k]
         lookup == ~threw /\ b.kind = "lock" /\ ResOf(r) = "ok"
         all == r.ok \cup r.errs
     IN  /\ batches' = [batches EXCEPT ![k] =
               [@ EXCEPT !.st = IF lookup THEN "lookup" ELSE "finally",
                         !.res = IF threw THEN "threw" ELSE ResOf(r),
                         !.ok = r.ok, !.errs = r.errs]]
         /\ list' = IF ~threw /\ b.kind = "unlock" /\ ~r.rejected
                    THEN UnlockAll(list, all) ELSE list
         /\ dispatched' =
              IF threw \/ r.rejected THEN ExceptionMessage
              ELSE IF lookup THEN {}
              ELSE IF b.kind = "lock" THEN ErrorsMessage(r.errs)
              ELSE (IF all = {} THEN {} ELSE {Dispatch("unlockFileLocal", all)})
                   \cup ErrorsMessage(r.errs)
  /\ UNCHANGED <<mounted, runningRef, selectedFiles, doneEvent, busy, engineVars, normVars>>

\* window.api.git.lockFiles / unlockFiles settles with r and the first then /
\* catch runs (threw: the then handler itself failed before it dispatched).
\* A lock batch with succeeded paths goes on to look their locks up; one
\* without goes straight to the second then, which reports the errors; an
\* unlock batch dispatches unlockFileLocal for each key of ok and reports the
\* errors; a rejection or a throw reaches the catch.
batchSettle(k, r, threw) ==
  /\ k \in 1..Len(batches)
  /\ batches[k].st = "engine"
  /\ r.rejected => ~threw
  /\ LET b == batches[k]
         lookup == ~threw /\ b.kind = "lock" /\ ResOf(r) = "ok"
     IN  /\ batches' = [batches EXCEPT ![k] =
               [@ EXCEPT !.st = IF lookup THEN "lookup" ELSE "finally",
                         !.res = IF threw THEN "threw" ELSE ResOf(r),
                         !.ok = r.ok, !.errs = r.errs]]
         /\ list' = IF ~threw /\ b.kind = "unlock" /\ ~r.rejected
                    THEN UnlockAll(list, r.ok) ELSE list
         /\ dispatched' =
              IF threw \/ r.rejected THEN ExceptionMessage
              ELSE IF lookup THEN {}
              ELSE IF b.kind = "lock" THEN ErrorsMessage(r.errs)
              ELSE (IF r.ok = {} THEN {} ELSE {Dispatch("unlockFileLocal", r.ok)})
                   \cup ErrorsMessage(r.errs)
  /\ UNCHANGED <<mounted, runningRef, selectedFiles, doneEvent, busy, engineVars, normVars>>

\* Promise.all(lookups) resolves (each lookup has its own catch), found: the
\* paths whose lookup returned a lock, and the second then runs:
\* lockFileLocal for each item with a lock, then the errors reported;
\* threw: the handler itself failed before it dispatched.
lookupsSettle(k, found, threw) ==
  /\ k \in 1..Len(batches)
  /\ batches[k].st = "lookup"
  /\ found \subseteq batches[k].ok
  /\ batches' = [batches EXCEPT ![k] =
       [@ EXCEPT !.st = "finally", !.res = IF threw THEN "threw" ELSE @,
                 !.locks = found]]
  /\ list' = IF threw THEN list ELSE LockAll(list, found)
  /\ dispatched' =
       IF threw THEN ExceptionMessage
       ELSE (IF found = {} THEN {} ELSE {Dispatch("lockFileLocal", found)})
            \cup ErrorsMessage(batches[k].errs)
  /\ UNCHANGED <<mounted, runningRef, selectedFiles, doneEvent, busy, engineVars, normVars>>

\* Variant of batchFinally: the guard is reset, the selection cleared and the
\* event dispatched in the then handler, so not after a rejection or a throw.
batchFinally_inThen(k) ==
  /\ k \in 1..Len(batches)
  /\ batches[k].st = "finally"
  /\ batches' = RemoveAt(batches, k)
  /\ IF batches[k].res \in {"reject", "threw"}
     THEN UNCHANGED <<selectedFiles, runningRef, doneEvent, busy>>
     ELSE /\ selectedFiles' = <<>>
          /\ runningRef' = IF batches[k].own THEN FALSE ELSE runningRef
          /\ doneEvent' = DoneEventOf(batches[k].kind)
          /\ busy' = FALSE
  /\ dispatched' = {}
  /\ UNCHANGED <<mounted, list, engineVars, normVars>>

\* .finally: clearSelectedFiles, runningRef.current = false (the runningRef
\* of the batch's closure), '...-batch-done' dispatched, on which the
\* multi-file action resets busy.
batchFinally(k) ==
  /\ k \in 1..Len(batches)
  /\ batches[k].st = "finally"
  /\ batches' = RemoveAt(batches, k)
  /\ selectedFiles' = <<>>
  /\ runningRef' = IF batches[k].own THEN FALSE ELSE runningRef
  /\ doneEvent' = DoneEventOf(batches[k].kind)
  /\ busy' = FALSE
  /\ dispatched' = {Dispatch("clearSelectedFiles", {})}
  /\ UNCHANGED <<mounted, list, engineVars, normVars>>

\* ---- multi-file action
\* selectedFiles.map(p => files.find(f => f.path === p)).filter(Boolean)
RECURSIVE RowsFor(_, _)
RowsFor(sel, l) ==
  IF sel = <<>> THEN <<>>
  ELSE LET hits == {k \in 1..Len(l) : l[k].path = Head(sel)}
           row == IF hits = {} THEN <<>>
                  ELSE <<l[CHOOSE k \in hits : \A h \in hits : k <= h]>>
       IN  row \o RowsFor(Tail(sel), l)

selectedRows == RowsFor(selectedFiles, list)

\* rows.filter(keep).map(f => f.rawPath ?? f.path)
RECURSIVE BatchOf(_, _)
BatchOf(rows, keep) ==
  IF rows = <<>> THEN <<>>
  ELSE (IF Head(rows) \in keep THEN <<Head(rows).rawPath>> ELSE <<>>)
       \o BatchOf(Tail(rows), keep)

Lockable(rows) == {f \in Range(rows) : ~f.lock /\ ~f.isMissing}
Unlockable(rows) == {f \in Range(rows) : f.lock /\ ~f.isMissing}
Locked(rows) == {f \in Range(rows) : f.lock}

\* The banner is rendered while something is selected; "Lock all" clicked.
lockAll ==
  /\ selectedFiles # <<>>
  /\ LET batch == BatchOf(selectedRows, Lockable(selectedRows))
     IN  /\ batch # <<>>
         /\ StartBatch("lock", batch)
  /\ UNCHANGED busy

\* "Unlock all" clicked.
unlockAll ==
  /\ selectedFiles # <<>>
  /\ LET batch == BatchOf(selectedRows, Unlockable(selectedRows))
     IN  /\ batch # <<>>
         /\ StartBatch("unlock", batch)
  /\ UNCHANGED busy

allLocked == selectedRows # <<>> /\ \A f \in Range(selectedRows) : f.lock
allUnlocked == selectedRows # <<>> /\ \A f \in Range(selectedRows) : ~f.lock /\ ~f.isMissing
mixed == selectedRows # <<>> /\ ~(allLocked \/ allUnlocked)

\* The single button of the other multi-file action is clicked.
handleClick ==
  /\ selectedFiles # <<>>
  /\ ~(busy \/ mixed \/ selectedRows = <<>>)
  /\ busy' = TRUE
  /\ IF allUnlocked
     THEN StartBatch("lock", BatchOf(selectedRows, Lockable(selectedRows)))
     ELSE StartBatch("unlock", BatchOf(selectedRows, Locked(selectedRows)))

\* ---- specifications of the renderer
\* The engine idle in an empty repository.
EngineIdle == head = NoTree /\ tipRemote = NoTree

\* The batch listeners alone, over a listing that does not change; the
\* engine calls are the promises of batches, and each settles with one of:
UIResults == {Rejection, Result(FALSE, {}, {}), Result(FALSE, {<<"a.bin">>}, {})}

InitUI ==
  /\ InitProgram /\ EngineIdle
  /\ list = DefaultListing
  /\ fn = "none" /\ str = <<>> /\ out = <<>>

NextUI ==
  \/ registerHandlers
  \/ removeHandlers
  \/ \E filePaths \in SeqsUpTo(Files, MaxPaths) : onLockBatch(filePaths)
  \/ \E filePaths \in SeqsUpTo(Files, MaxPaths) : onUnlockBatch(filePaths)
  \/ \E k \in 1..MaxBatches, r \in UIResults, threw \in BOOLEAN : batchSettle(k, r, threw)
  \/ \E k \in 1..MaxBatches, threw \in BOOLEAN : lookupsSettle(k, {}, threw)
  \/ \E k \in 1..MaxBatches : batchFinally(k)
  \/ \E f \in Files : toggleSelectedFile(f)

SpecUI == InitUI /\ [][NextUI]_vars

\* Every pending IPC call settles and every settled promise runs its handlers.
FairSpecUI ==
  /\ SpecUI
  /\ WF_vars(\E k \in 1..MaxBatches, r \in UIResults, threw \in BOOLEAN :
               batchSettle(k, r, threw))
  /\ WF_vars(\E k \in 1..MaxBatches, threw \in BOOLEAN : lookupsSettle(k, {}, threw))
  /\ WF_vars(\E k \in 1..MaxBatches : batchFinally(k))

\* The files slice under the listing refresh and the handlers of one row.
InitSlice == Init /\ EngineIdle

NextSlice ==
  \/ \E payload \in Listings : setFiles(payload)
  \/ \E f \in Files : toggleSelectedFile(f)
  \/ \E filePath \in RawPaths \ {<<>>}, ok \in BOOLEAN, found \in BOOLEAN :
       onLock(filePath, ok, found)
  \/ \E filePath \in RawPaths \ {<<>>}, ok \in BOOLEAN : onUnlock(filePath, ok)

SpecSlice == InitSlice /\ [][NextSlice]_vars

\* The Files page after a listing refresh: rows, multi-file actions, batches.
InitFiles ==
  /\ InitProgram /\ EngineIdle
  /\ list \in {Normalized(payload) : payload \in Listings}
  /\ fn = "none" /\ str = <<>> /\ out = <<>>

NextFiles ==
  \/ \E f \in Files : toggleSelectedFile(f)
  \/ lockAll
  \/ unlockAll
  \/ handleClick
  \/ \E k \in 1..MaxBatches, r \in Results, threw \in BOOLEAN : batchSettle(k, r, threw)
  \/ \E k \in 1..MaxBatches, found \in SUBSET Files, threw \in BOOLEAN :
       lookupsSettle(k, found, threw)
  \/ \E k \in 1..MaxBatches : batchFinally(k)

SpecFiles == InitFiles /\ [][NextFiles]_vars

\* ------------------------------------------------------- path normalizers
\* Bound: the longest path string handed to a normalizer, in tokens.
MaxTokens == 4

PathTokens == {"a.bin", "/", "\\", ".", ".."}
Separators == {"/", "\\"}

\* A token sequence that spells a path: a name, '.' or '..' is a whole
\* segment, so it is followed by a separator or ends the string.
WellFormed(p) ==
  \A k \in 1..(Len(p) - 1) : p[k] \notin Separators => p[k + 1] \in Separators

PathStrings == {p \in SeqsUpTo(PathTokens, MaxTokens) : WellFormed(p)}

\* The normalizer under study applied to p.
Normalize(p) == IF fn = "paths.js" THEN normPath(p) ELSE sliceNormPath(p)

\* p with its k-th token, a separator, replaced by the other separator.
SwapSeparator(p, k) == [p EXCEPT ![k] = IF @ = "/" THEN "\\" ELSE "/"]

\* p with a '.' segment put in before its k-th token (k = Len(p) + 1: at the end).
InsertDot(p, k) == SubSeq(p, 1, k - 1) \o <<".", "/">> \o SubSeq(p, k, Len(p))

\* The normalizer is applied to its own result.
normalizeAgain ==
  /\ str' = out
  /\ out' = Normalize(out)
  /\ UNCHANGED <<fn, engineVars, uiVars>>

\* The same path is spelled with the other separator at one place.
respellSeparator(k) ==
  /\ k \in 1..Len(str)
  /\ str[k] \in Separators
  /\ str' = SwapSeparator(str, k)
  /\ out' = Normalize(str')
  /\ UNCHANGED <<fn, engineVars, uiVars>>

\* The same path is spelled with a redundant '.' segment between two of its
\* segments.
respellDot(k) ==
  /\ k \in 2..Len(str)
  /\ Len(str) <= MaxTokens
  /\ str[k - 1] \in Separators
  /\ str[k] \notin Separators
  /\ str' = InsertDot(str, k)
  /\ out' = Normalize(str')
  /\ UNCHANGED <<fn, engineVars, uiVars>>

InitNorm ==
  /\ InitProgram /\ EngineIdle
  /\ list = <<>>
  /\ fn \in {"paths.js", "filesSlice"}
  /\ str \in PathStrings
  /\ out = Normalize(str)

NextNorm ==
  \/ normalizeAgain
  \/ \E k \in 1..(MaxTokens + 2) : respellSeparator(k)
  \/ \E k \in 1..(MaxTokens + 2) : respellDot(k)

SpecNorm == InitNorm /\ [][NextNorm]_vars

\* ------------------------------------------------------- reading the log
Idx == 1..Len(calls)

\* The batch spawned command cmd on path f.
Attempted(cmd, f) == \E k \in Idx : calls[k][1] = cmd /\ calls[k][2] = f

\* Positions of the log holding command cmd.
CallsOf(cmd) == {k \in Idx : calls[k][1] = cmd}

\* Command cmd ran and exited nonzero / zero.
Failed(cmd) == \E k \in CallsOf(cmd) : calls[k][3] = FailCode
Succeeded(cmd) == \E k \in CallsOf(cmd) : calls[k][3] = OkCode

ReleaseCmds == {"unlock", "unlock-force"}

\* Positions of the per-file calls: lock-acquire, lock-release.
LockCalls == CallsOf("lock")
ReleaseCalls == {k \in Idx : calls[k][1] \in ReleaseCmds}

\* No command exited nonzero, the allowFail cleanup apart.
NoCommandFailed ==
  \A k \in Idx : calls[k][3] = FailCode => calls[k][1] = "worktree-remove"

\* ------------------------------------------------------------------ C1
\* C1: in lockMany and unlockMany a failing per-file call is that file's
\* error only: once the batch has ended after reaching its per-file loop,
\* every file of the batch has had its own attempt.
C1_PerFileFailureDoesNotStopOthers ==
  (pc = "done" /\ (LockCalls # {} \/ ReleaseCalls # {}))
    => \A f \in Range(files) :
         Attempted("lock", f) \/ \E c \in ReleaseCmds : Attempted(c, f)

\* ------------------------------------------------------------------ C2
\* C2: a requested path that has uncommitted changes (staged or unstaged)
\* when lockMany starts is in no entry of the result of the batch and no
\* lock-acquire call is spawned for it.
C2_DirtyPathNeverLocked ==
  op = "lock" =>
    \A f \in dirtyAtStart \cap Range(files) :
      ~Attempted("lock", f) /\ f \notin Range(results)

\* A lock batch naming a path with staged changes has run ensureCleanPaths
\* and ended.
C2_Witness ==
  /\ pc = "done" /\ op = "lock"
  /\ \E f \in dirtyAtStart \cap Range(files) : index[f] # head[f]
  /\ Succeeded("diff-cached")

C4_PushRejectedReleasesNothing ==
  (op = "unlock" /\ Failed("push"))
    => /\ ReleaseCalls = {}
       /\ results = <<>>
       /\ outcome # "resolved"
       /\ pc = "done" => (outcome = "rejected" /\ error = "push")

\* A push was rejected as non-fast-forward and the batch has ended.
C4_Witness ==
  /\ pc = "done" /\ op = "unlock"
  /\ Failed("push") /\ remoteAhead
  /\ Len(files) = 2

C7_LockedBlobMatchesTip ==
  \A k \in LockCalls :
    head[calls[k][2]] = tipLocal[calls[k][2]] \/ tipLocal[calls[k][2]] = NoBlob

\* A lock-acquire call was spawned for a file that had to be synced from the
\* tip and for a file the tip lacks.
C7_Witness ==
  /\ \E k \in LockCalls : calls[k][2] \in Range(toUpdate)
  /\ \E k \in LockCalls : tipLocal[calls[k][2]] = NoBlob

\* ------------------------------------------------------------------ C8
\* C8: in the log of a batch, the sync commit (lockMany) and the publish
\* commit and its push (unlockMany) have completed before the first
\* per-file lock-acquire or lock-release call.
C8_CommitBeforePerFileCalls ==
  \A c \in CallsOf("commit") \cup CallsOf("push") :
    \A k \in LockCalls \cup ReleaseCalls : c < k

\* Both kinds of batch have got from their commit to a per-file call.
C8_Witness ==
  /\ Succeeded("commit")
  /\ op = "unlock" => Succeeded("push")
  /\ LockCalls \cup ReleaseCalls # {}
  /\ Len(files) = 2 /\ i = 2

\* ------------------------------------------------------------------ C9
\* C9: when the fetch, the checkout of tip blobs, the staging or the sync
\* commit of lockMany exits nonzero, lockMany is rejected at that step and
\* no lock-acquire call is spawned.
SetupCmds == {"fetch", "checkout", "add", "commit"}

C9_SetupFailureRejectsLock ==
  (op = "lock" /\ \E c \in SetupCmds : Failed(c))
    => /\ pc = "done" /\ outcome = "rejected"
       /\ error \in SetupCmds /\ Failed(error)
       /\ LockCalls = {}
       /\ results = <<>>

\* The sync commit of a lock batch failed.
C9_Witness ==
  /\ op = "lock" /\ Failed("commit") /\ Len(files) = 2

\* ----------------------------------------------------------------- C10
\* C10: lockMany spawns at most one sync commit per batch: none when no file
\* is marked in toUpdate, exactly one (successful) by the time the lock loop
\* runs when some file is, and after it every file of toUpdate has the tip's
\* blob at the local head.
C10_OneSyncCommit ==
  op = "lock" =>
    /\ Cardinality(CallsOf("commit")) <= 1
    /\ toUpdate = <<>> => CallsOf("commit") = {}
    /\ ((pc = "L_lock" \/ LockCalls # {}) /\ toUpdate # <<>>)
         => (Cardinality(CallsOf("commit")) = 1 /\ Succeeded("commit"))
    /\ Succeeded("commit")
         => \A f \in Range(toUpdate) : head[f] = tipLocal[f]

\* A lock batch in which two files were marked has made its commit.
C10_Witness ==
  /\ op = "lock" /\ pc = "L_lock"
  /\ Len(toUpdate) = 2 /\ Succeeded("commit")

\* ------------------------------------------------------------------ C11
\* The paths a batch reports as succeeded, and those whose own call failed.
OkPaths == Range(results)
ErrorPaths ==
  {calls[k][2] : k \in {m \in LockCalls \cup ReleaseCalls : calls[m][3] = FailCode}}

\* The deduplicated, normalized input path set of the batch.
NormalizedInput == {normPath(f) : f \in Range(files)}

\* C11: when a lockMany or unlockMany batch has ended, its succeeded paths
\* and its failed paths are disjoint and all of them are members of the
\* deduplicated, normalized input path set.
C11_ResultWithinNormalizedInput ==
  pc = "done" =>
    /\ OkPaths \cap ErrorPaths = {}
    /\ (OkPaths \cup ErrorPaths) \subseteq NormalizedInput

\* ------------------------------------------------------------------ C20
\* The per-file calls of the batch whose path has canonical form f.
CallsOn(f) ==
  {k \in LockCalls \cup ReleaseCalls : normPath(calls[k][2]) = f}

\* C20: two input paths with the same canonical form are processed as one
\* file: a batch issues at most one lock-acquire or lock-release call per
\* canonical path.
C20_OneCallPerCanonicalPath ==
  \A f \in Files : Cardinality(CallsOn(f)) <= 1

\* ------------------------------------------------------------------ C14
\* The step spawned git lfs lock on path f.
LockSpawned(f) ==
  /\ Len(calls') = Len(calls) + 1
  /\ calls'[Len(calls')][1] = "lock"
  /\ GitFile(calls'[Len(calls')][2]) = f

\* C14: in lockMany a path that does not exist in the working directory is
\* skipped: no step of the batch checks tip content out for it, commits it
\* or spawns a lock-acquire call for it.
C14_AbsentLocallyIsSkipped ==
  [][\A f \in GitFiles(files) :
       (op = "lock" /\ wtree[f] = NoBlob)
         => /\ wtree'[f] = wtree[f]
            /\ index'[f] = index[f]
            /\ head'[f] = head[f]
            /\ ~LockSpawned(f)]_vars

\* ------------------------------------------------------------------ C15
\* The tip has a blob for f and its id is not the id of the HEAD blob; a
\* missing HEAD blob (NoBlob) is different from every tip id.
TipDiffers(f) == tipLocal[f] # NoBlob /\ tipLocal[f] # head[f]

\* C15: in lockMany a file is marked as requiring sync exactly when its
\* blob exists on the tip and differs from the HEAD blob (an absent HEAD
\* blob differs from every tip blob), and no step of the batch checks out a
\* file that is not on the tip or whose two ids are equal.
C15_SyncExactlyWhenTipDiffers ==
  [][op = "lock" =>
       /\ (pc = "L_resolve" /\ pc' # "L_resolve") =>
            \A f \in Range(files) :
              (f \in Range(toUpdate')) <=> TipDiffers(GitFile(f))
       /\ \A f \in Files :
            ~TipDiffers(f) => wtree'[f] = wtree[f] /\ index'[f] = index[f]]_vars

\* The tip content of a file with no HEAD blob has been checked out, next to
\* a file of the same batch that was not marked.
C15_Witness ==
  /\ op = "lock" /\ pc = "L_add"
  /\ \E f \in Range(toUpdate) : head[f] = NoBlob /\ wtree[f] = tipLocal[f]
  /\ \E g \in Range(files) : g \notin Range(toUpdate)

\* ------------------------------------------------------------------ C16
\* The files of toPublish.
Published == {toPublish[k][1] : k \in 1..Len(toPublish)}

\* f is new on the tip, or its HEAD blob is not the tip's blob.
NewOrDiffers(f) == tipLocal[f] = NoBlob \/ tipLocal[f] # head[f]

PublishCmds == {"worktree-add", "checkout-B", "update-index", "commit", "push"}

\* C16: unlockMany publishes only when needed.  The resolve step sets the
\* publish set to exactly the requested files that are new on the tip or
\* differ from it; with an empty set no worktree exists and no publish
\* command is spawned; with a non-empty set the release loop runs after
\* exactly one commit and exactly one push, both successful.
C16_PublishOnlyWhenNeeded ==
  /\ [](op = "unlock" =>
          /\ toPublish = <<>> =>
               ~wtExists /\ \A c \in PublishCmds : CallsOf(c) = {}
          /\ ((pc = "U_unlock" \/ ReleaseCalls # {}) /\ toPublish # <<>>) =>
               /\ Cardinality(CallsOf("commit")) = 1 /\ Succeeded("commit")
               /\ Cardinality(CallsOf("push")) = 1 /\ Succeeded("push"))
  /\ [][(op = "unlock" /\ pc = "U_resolve" /\ pc' \notin {"U_resolve", "done"}) =>
          \A f \in Range(files) :
            (f \in Published') <=> NewOrDiffers(GitFile(f))]_vars

\* An unlock batch of two files, one of them to publish, has pushed its
\* commit and reached the release loop.
C16_Witness ==
  /\ op = "unlock" /\ pc = "U_unlock"
  /\ Len(files) = 2 /\ Len(toPublish) = 1
  /\ Succeeded("push")

\* ------------------------------------------------------------------ C17
\* The step is the push of the publish commit, and it succeeded.
PushSucceeds ==
  /\ op = "unlock" /\ pc = "U_push"
  /\ Len(calls') = Len(calls) + 1
  /\ calls'[Len(calls')] = Call("push", <<>>, OkCode)

\* C17: the successful push of unlockMany leaves on the tip branch, for every
\* published path, the HEAD blob that was resolved for it before the
\* worktree was created (the blob HEAD holds for it), and leaves the tip's
\* content of every other path as it was.
C17_TipHoldsResolvedHeadBlob ==
  [][PushSucceeds =>
       /\ \A k \in 1..Len(toPublish) :
            /\ tipRemote'[toPublish[k][1]] = toPublish[k][2]
            /\ toPublish[k][2] = head[toPublish[k][1]]
       /\ \A f \in Files \ Published : tipRemote'[f] = tipRemote[f]]_vars

\* A publish commit has been pushed: the tip holds the HEAD blob of the
\* published file and still differs from HEAD on a file outside the set.
C17_Witness ==
  /\ op = "unlock" /\ pc = "U_finally" /\ Succeeded("push")
  /\ \E f \in Published : tipRemote[f] = head[f] /\ wtree[f] # head[f]
  /\ \E g \in Files \ Published : tipRemote[g] # NoBlob /\ tipRemote[g] # head[g]

C19_ForceHonoured ==
  op = "unlock" =>
    /\ \A k \in ReleaseCalls : (calls[k][1] = "unlock-force") <=> force
    /\ \A k \in ReleaseCalls :
         (force /\ calls[k][2] \in Published) =>
           /\ Cardinality(CallsOf("commit")) = 1
           /\ Cardinality(CallsOf("push")) = 1
           /\ \A p \in CallsOf("commit") \cup CallsOf("push") :
                p < k /\ calls[p][3] = OkCode

\* A forced unlock of a file that differed from the tip has pushed the publish
\* commit and spawned the forced release call for that file.
C19_Witness ==
  /\ op = "unlock" /\ force
  /\ \E k \in ReleaseCalls :
       calls[k][1] = "unlock-force" /\ calls[k][2] \in Published
  /\ Succeeded("push")

\* ------------------------------------------------------------------ C12
\* The batches whose engine call is pending.
InFlight == {k \in 1..Len(batches) : batches[k].st = "engine"}

\* C12: at most one batch, lock or unlock, has its engine call in flight for
\* the repository at any time, whatever the interleaving of triggers,
\* completions and re-registrations of the batch listeners.
C12_OneBatchInFlight == Cardinality(InFlight) <= 1

\* ------------------------------------------------------------------ C13
\* The step ends batch k: its finally handler ran.
Finished(k) == k \in 1..Len(batches) /\ batches' = RemoveAt(batches, k)

\* C13: the guard is set while a batch started by the registered listeners
\* has not finished; the step that ends a batch, however its engine call and
\* its result handling went, resets the guard of that batch, clears the
\* selection and dispatches the matching done event; and a set guard is
\* always released again.
C13_GuardHeldThenReleased ==
  /\ [](\A k \in 1..Len(batches) : batches[k].own => runningRef)
  /\ [][Len(batches') < Len(batches) =>
          \E k \in 1..Len(batches) :
            /\ Finished(k)
            /\ batches[k].st = "finally"
            /\ selectedFiles' = <<>>
            /\ doneEvent' = DoneEventOf(batches[k].kind)
            /\ batches[k].own => ~runningRef']_vars
  /\ (runningRef ~> ~runningRef)

\* A batch whose result handling failed is about to run its finally handler
\* with the guard set and files selected.
C13_Witness ==
  /\ mounted /\ runningRef /\ selectedFiles # <<>>
  /\ \E k \in 1..Len(batches) :
       batches[k].own /\ batches[k].st = "finally" /\ batches[k].res = "threw"

\* ------------------------------------------------------------------ C21
\* The step is a call of lockMany or unlockMany whose input holds no path
\* (no element, or empty strings only).
EmptyCall == pc = "idle" /\ op' \in {"lock", "unlock"} /\ files' = <<>>

\* C21: lockMany and unlockMany on an empty input resolve at once with an
\* empty result, spawn no external command and leave the repository, the
\* remote and the worktree as they were.
C21_EmptyInputDoesNothing ==
  /\ []((pc = "done" /\ files = <<>>) =>
          outcome = "resolved" /\ results = <<>> /\ calls = <<>>)
  /\ [][EmptyCall =>
          /\ pc' = "done" /\ outcome' = "resolved"
          /\ results' = <<>> /\ calls' = <<>>
          /\ UNCHANGED <<repoVars, remoteVars, wtVars>>]_vars

\* A call with no path has resolved in a repository that has a local edit
\* and differs from the tip.
C21_Witness ==
  /\ pc = "done" /\ op \in {"lock", "unlock"} /\ files = <<>>
  /\ outcome = "resolved"
  /\ wtree # head /\ head # tipLocal

\* ------------------------------------------------------------------ C22
\* The step belongs to the batch that a wrapper call awaits.
BatchStepOfOne == one # NoCall /\ one' = one /\ returned' = returned

\* C22: lockOne(file) and unlockOne(file, opts) are lockMany([file]) and
\* unlockMany([file], opts).  The call step is the call step of that batch,
\* with the same option; every later step is a step of the batch engine, so
\* the external calls are the same; and the wrapper settles as the batch
\* does, with the single entry of its result (nothing when it is empty).
C22_OneIsBatchOfOne ==
  /\ [](one # NoCall =>
          /\ files = UniqueFiles(<<one.file>>)
          /\ op = (IF one.api = "lockOne" THEN "lock" ELSE "unlock")
          /\ force = (one.api = "unlockOne" /\ one.force)
          /\ returned.st = "resolved" =>
               /\ outcome = "resolved"
               /\ Len(results) <= 1
               /\ returned.val = results
          /\ returned.st = "rejected" => outcome = "rejected")
  /\ [][(pc = "idle" /\ one' # NoCall) =>
          IF one'.api = "lockOne"
          THEN lockManyCall(<<one'.file>>)
          ELSE unlockManyCall(<<one'.file>>, one'.force)]_vars
  /\ [][BatchStepOfOne => NextRaw]_vars

\* unlockOne with force on a file that differed from the tip has returned the
\* entry of the file after the publish commit was pushed.
C22_Witness ==
  /\ one.api = "unlockOne" /\ one.force
  /\ returned.st = "resolved" /\ returned.val = <<one.file>>
  /\ Succeeded("push") /\ Succeeded("unlock-force")

\* ------------------------------------------------------------------ C23
\* C23: normPath of electron/paths.js is idempotent and separator-agnostic:
\* applied to its own result it returns that result, and two spellings of a
\* path that differ in a separator character or in a redundant '.' segment
\* have the same normal form.
C23_NormPathIdempotent ==
  [][fn = "paths.js" => out' = out]_vars

\* ------------------------------------------------------------------ C26
\* C26: normPath of the files slice is idempotent: applied to its own result
\* it returns that result, for every path, those with a repeated leading
\* './' included.
C26_SliceNormPathIdempotent ==
  [][(fn = "filesSlice" /\ str' = out) => out' = out]_vars

\* ------------------------------------------------------------------ C24
\* The entries of a list that match a path, and the others, in list order.
Matching(l, filePath) == FilterSeq(l, {e \in Range(l) : Matches(e, filePath)})
Others(l, filePath) == FilterSeq(l, {e \in Range(l) : ~Matches(e, filePath)})

\* The entries of a sequence with their lock set to lk.
WithLock(l, lk) == [k \in 1..Len(l) |-> [l[k] EXCEPT !.lock = lk]]

UnlockCompleted(filePath) == dispatched' = {Dispatch("unlockFileLocal", {filePath})}
LockCompleted(filePath, lk) ==
  dispatched' = {Dispatch(IF lk THEN "lockFileLocal" ELSE "lockFileLocal(undefined)",
                          {filePath})}

\* C24: a step that completes an unlock for a path removes the matching
\* entry of the list when it is missing and otherwise keeps it in place with
\* its lock cleared; a step that completes a lock sets the lock of the
\* matching entry; either step leaves every other entry and the selection as
\* they were, and the whole list when no entry matches.
C24_CompletionUpdatesMatchingEntry ==
  [][\A filePath \in RawPaths \ {<<>>} :
       /\ UnlockCompleted(filePath) =>
            /\ Others(list', filePath) = Others(list, filePath)
            /\ selectedFiles' = selectedFiles
            /\ Matching(list', filePath) =
                 WithLock(FilterSeq(Matching(list, filePath),
                                    {e \in Range(list) : ~e.isMissing}), FALSE)
            /\ Matching(list, filePath) = <<>> => list' = list
            /\ Len(list') = Len(list) =>
                 \A k \in 1..Len(list) : list'[k].path = list[k].path
       /\ \A lk \in BOOLEAN : LockCompleted(filePath, lk) =>
            /\ Others(list', filePath) = Others(list, filePath)
            /\ selectedFiles' = selectedFiles
            /\ Matching(list', filePath) = WithLock(Matching(list, filePath), lk)
            /\ Matching(list, filePath) = <<>> => list' = list
            /\ \A k \in 1..Len(list) : list'[k].path = list[k].path
    ]_vars

\* The unlock of './a.bin' has completed, its missing entry is gone, the
\* entry of b.bin and the selection are still there.
C24_Witness ==
  /\ dispatched = {Dispatch("unlockFileLocal", {<<".", "/", "a.bin">>})}
  /\ PathsOf(list) = {<<"b.bin">>}
  /\ selectedFiles # <<>>

\* ------------------------------------------------------------------ C29
\* C29: whatever slice actions have been dispatched, every selected path is
\* the path of an entry of the list.
C29_SelectionWithinList == Range(selectedFiles) \subseteq PathsOf(list)

\* ------------------------------------------------------------------ C25
\* The then / catch handlers of batch k have just run: its chain reaches
\* .finally in this step.
HandlersRan(k) ==
  /\ k \in 1..Len(batches)
  /\ Len(batches') = Len(batches)
  /\ batches[k].st # "finally"
  /\ batches'[k].st = "finally"

DispatchedFor(type) == UNION {d.paths : d \in {x \in dispatched' : x.type = type}}

\* C27: the batch handlers dispatch lockFileLocal only for a path of the ok
\* part of a lock batch whose lookup returned a lock and unlockFileLocal only
\* for a path of the ok part of an unlock batch; they change no entry that
\* matches no path of the ok part, and nothing of the list after a rejection.
C27_LockStateFollowsOk ==
  [][/\ \A k \in 1..MaxBatches : HandlersRan(k) =>
          LET b == batches'[k]
          IN  /\ DispatchedFor("lockFileLocal") \subseteq
                   (IF b.kind = "lock" THEN b.ok \cap b.locks ELSE {})
              /\ DispatchedFor("unlockFileLocal") \subseteq
                   (IF b.kind = "unlock" THEN b.ok ELSE {})
              /\ \A e \in Range(list) :
                   (\A p \in b.ok : ~Matches(e, p)) => e \in Range(list')
              /\ b.res = "reject" =>
                   /\ list' = list
                   /\ DispatchedFor("lockFileLocal") = {}
                   /\ DispatchedFor("unlockFileLocal") = {}
     /\ (list' # list \/ DispatchedFor("lockFileLocal") # {}
                      \/ DispatchedFor("unlockFileLocal") # {}) =>
          \E k \in 1..MaxBatches : HandlersRan(k)
    ]_vars

\* An unlock batch came back with a.bin released and b.bin failed:
\* unlockFileLocal went out for a.bin alone and b.bin still has its lock.
C27_Witness ==
  \E k \in 1..Len(batches) :
    /\ batches[k].kind = "unlock"
    /\ batches[k].st = "finally"
    /\ batches[k].ok = {<<"a.bin">>}
    /\ batches[k].errs = {<<"b.bin">>}
    /\ Dispatch("unlockFileLocal", {<<"a.bin">>}) \in dispatched
    /\ \E e \in Range(list) : e.path = <<"b.bin">> /\ e.lock

\* ------------------------------------------------------------------ C28
\* The rawPaths of the entries of the list that are selected and in keep.
SelectedIn(keep) ==
  {e.rawPath : e \in {x \in Range(list) : x.path \in Range(selectedFiles) /\ x \in keep}}

\* The event of type that this step dispatched, if it did.
EventSent(type) == {d \in dispatched' : d.type = type}

\* C28: a 'lock-batch' event sent by a multi-file action carries only
\* selected entries of the list that are unlocked and not missing, an
\* 'unlock-batch' event only selected entries that are locked and not
\* missing, and no event is sent with an empty batch.
C28_OnlyEligibleFilesSent ==
  [][/\ \A d \in EventSent("lock-batch") :
          d.paths # {} /\ d.paths \subseteq SelectedIn(Lockable(list))
     /\ \A d \in EventSent("unlock-batch") :
          d.paths # {} /\ d.paths \subseteq SelectedIn(Unlockable(list))
    ]_vars
====
